---- MODULE Spec2Model ----
(***************************************************************************)
(* Model of trading_simulator/app.py: class TradingSimulator.              *)
(*                                                                         *)
(* The SQLite database is the four tables tbl_prices, tbl_trades,          *)
(* tbl_portfolio and tbl_cash. Every helper of the class opens its own     *)
(* connection and commits before it returns, so every write is a step of   *)
(* its own: the value of the four tables in a state is what another        *)
(* connection to the database would read at that moment.                   *)
(*                                                                         *)
(* Python floats are modelled as exact rationals <<numerator,denominator>> *)
(* in lowest terms with a positive denominator (rounding is not modelled). *)
(***************************************************************************)
EXTENDS Integers, Sequences, FiniteSets, TLC

\* ------------------------------------------------------------------------
\* Bounds of the model and the inputs it draws.

\* number of iterations of the loop of run() that are explored
MaxTicks == 4
\* number of times the wall clock may return the timestamp of the previous tick
MaxRepeats == 1
\* number of restarts of the process after a crash that are explored
MaxRestarts == 1
\* the clock readings 0..MaxStamp a price is recorded at, and the number up
\* to which the writes to a key that is already stored are counted, where
\* _store_price is called on its own
MaxStamp == 2
MaxRewrites == 1

\* self.symbols, as main() sets it
symbols == <<"BTCUSDT", "ETHUSDT">>
Symbols == {symbols[k] : k \in 1..Len(symbols)}

\* ------------------------------------------------------------------------
\* Float arithmetic, as exact rationals.

RECURSIVE GCD(_, _)
GCD(a, b) == IF b = 0 THEN a ELSE GCD(b, a % b)

Abs(a) == IF a < 0 THEN -a ELSE a

\* the rational n/d (d # 0) in lowest terms with a positive denominator
Norm(n, d) ==
    LET g == GCD(Abs(n), Abs(d))
        s == IF d < 0 THEN -1 ELSE 1
    IN  <<(s * n) \div g, (s * d) \div g>>

R(n) == <<n, 1>>

\* the least common multiple of two positive denominators
LCM(a, b) == (a \div GCD(a, b)) * b

\* x + y, x - y, x * y and x / y; common factors are cancelled before the
\* products are formed, which keeps the intermediate integers small
RAdd(x, y) ==
    LET l == LCM(x[2], y[2])
    IN  Norm(x[1] * (l \div x[2]) + y[1] * (l \div y[2]), l)
RSub(x, y) ==
    LET l == LCM(x[2], y[2])
    IN  Norm(x[1] * (l \div x[2]) - y[1] * (l \div y[2]), l)
RMul(x, y) ==
    LET g1 == GCD(Abs(x[1]), y[2])
        g2 == GCD(Abs(y[1]), x[2])
    IN  Norm((x[1] \div g1) * (y[1] \div g2), (x[2] \div g2) * (y[2] \div g1))
\* the caller guards y # 0 (Python raises ZeroDivisionError there)
RDiv(x, y) ==
    IF y[1] < 0 THEN RMul(x, <<-y[2], -y[1]>>) ELSE RMul(x, <<y[2], y[1]>>)
\* x < y and x <= y
RLt(x, y) ==
    LET l == LCM(x[2], y[2])
    IN  x[1] * (l \div x[2]) < y[1] * (l \div y[2])
RLe(x, y) ==
    LET l == LCM(x[2], y[2])
    IN  x[1] * (l \div x[2]) <= y[1] * (l \div y[2])
RNeg(x) == <<-x[1], x[2]>>
Zero == <<0, 1>>

\* the return value None of _fetch_price
None == <<>>

\* the literal 0.0001 of _execute_trade
MinSpend == <<1, 10000>>

\* ------------------------------------------------------------------------
\* Timestamps. A datetime is counted in microseconds; UsecPerSec stands for
\* the 10^6 microseconds of a second, scaled down.
UsecPerSec == 2

\* datetime.isoformat(): the seconds, and the microseconds only when they are
\* not zero ("...T00:00:05" but "...T00:00:05.000001"). A string is modelled
\* as the sequence of its fields.
isoformat(t) ==
    IF t % UsecPerSec = 0 THEN <<t \div UsecPerSec>>
                          ELSE <<t \div UsecPerSec, t % UsecPerSec>>

\* order of two TEXT values in SQLite (memcmp: a proper prefix sorts first)
RECURSIVE TextLt(_, _)
TextLt(a, b) ==
    IF b = <<>> THEN FALSE
    ELSE IF a = <<>> THEN TRUE
    ELSE IF Head(a) # Head(b) THEN Head(a) < Head(b)
    ELSE TextLt(Tail(a), Tail(b))

\* ------------------------------------------------------------------------
\* The state.

VARIABLES
    \* the database
    tbl_prices,       \* table prices: rows [timestamp, symbol, price], key (timestamp, symbol)
    tbl_trades,       \* table trades: sequence of rows in order of insertion
    tbl_portfolio,    \* table portfolio: rows [symbol, quantity], key symbol
    tbl_cash,         \* table cash: rows [id, balance], id = 1
    \* the configuration of the TradingSimulator object
    short_ma, long_ma, position_size_fraction, starting_balance,
    \* the process
    pc,               \* position of the process
    clock,            \* the wall clock (utcnow), in microseconds
    ticks,            \* iterations of the loop of run() started so far
    repeats,          \* ticks that got the timestamp of the tick before
    restarts,         \* restarts after a crash
    \* locals of _job
    timestamp, idx, price,
    \* locals of _evaluate_strategy and _execute_trade
    signal, current_price, action, cash, quantity_owned, qty, new_cash, new_qty,
    \* history: the tables as they were when _execute_trade was entered, and
    \* the balance and the ledger length when the running tick started
    entry, tick0

db == <<tbl_prices, tbl_trades, tbl_portfolio, tbl_cash>>
config == <<short_ma, long_ma, position_size_fraction, starting_balance>>
counters == <<clock, ticks, repeats, restarts>>
execLocals == <<current_price, action, cash, quantity_owned, qty, new_cash, new_qty>>
vars == <<tbl_prices, tbl_trades, tbl_portfolio, tbl_cash,
          short_ma, long_ma, position_size_fraction, starting_balance,
          pc, clock, ticks, repeats, restarts, timestamp, idx, price,
          signal, current_price, action, cash, quantity_owned, qty, new_cash,
          new_qty, entry, tick0>>

\* ------------------------------------------------------------------------
\* The helpers of the class, as functions of the tables.

\* a plain INSERT into a table without the key
StorePriceInsert(tbl, ts, sym, p) ==
    tbl \cup {[timestamp |-> isoformat(ts), symbol |-> sym, price |-> p]}

\* _store_price: INSERT OR REPLACE INTO prices, key (timestamp, symbol)
StorePrice(tbl, ts, sym, p) ==
    {r \in tbl : ~(r.timestamp = isoformat(ts) /\ r.symbol = sym)}
        \cup {[timestamp |-> isoformat(ts), symbol |-> sym, price |-> p]}

\* ORDER BY timestamp DESC LIMIT n over rows of one symbol, whose timestamps
\* differ by the primary key: the k-th row has k - 1 rows after it in time
OrderByTimestampDesc(rows, n) ==
    LET c == Cardinality(rows)
        m == IF n < c THEN n ELSE c
    IN  [k \in 1..m |->
            CHOOSE r \in rows :
                Cardinality({o \in rows : TextLt(r.timestamp, o.timestamp)}) = k - 1]

\* the rows as the query returns them, newest first
ReversedNot(s) == s

\* list(reversed(rows))
Reversed(s) == [k \in 1..Len(s) |-> s[Len(s) + 1 - k]]

\* _get_recent_prices
GetRecentPrices(tbl, sym, periods) ==
    LET rows == OrderByTimestampDesc({r \in tbl : r.symbol = sym}, periods)
        rev == Reversed(rows)
    IN  [k \in 1..Len(rev) |-> rev[k].price]

\* a cash balance that _execute_trade takes from the start of the tick
\* instead of reading it
GetCashBalanceStale(tbl) ==
    IF pc = "execute" THEN tick0.cash
    ELSE IF \E r \in tbl : r.id = 1
        THEN (CHOOSE r \in tbl : r.id = 1).balance
        ELSE Zero

\* _get_cash_balance: row[0] if row else 0.0
GetCashBalance(tbl) ==
    IF \E r \in tbl : r.id = 1
        THEN (CHOOSE r \in tbl : r.id = 1).balance
        ELSE Zero

\* _update_cash_balance: UPDATE cash SET balance = ? WHERE id = 1
UpdateCashBalance(tbl, b) ==
    {IF r.id = 1 THEN [r EXCEPT !.balance = b] ELSE r : r \in tbl}

\* _get_portfolio_quantity: row[0] if row else 0.0
GetPortfolioQuantity(tbl, sym) ==
    IF \E r \in tbl : r.symbol = sym
        THEN (CHOOSE r \in tbl : r.symbol = sym).quantity
        ELSE Zero

\* _update_portfolio_quantity: DELETE when quantity == 0, else INSERT OR REPLACE
UpdatePortfolioQuantity(tbl, sym, q) ==
    IF q = Zero
        THEN {r \in tbl : r.symbol # sym}
        ELSE {r \in tbl : r.symbol # sym} \cup {[symbol |-> sym, quantity |-> q]}

\* an id that starts again at 1 for every row
NextIdReused(tbl) == 1

\* the id an AUTOINCREMENT key gives the next row: above every id in the table
NextId(tbl) ==
    IF Len(tbl) = 0 THEN 1
    ELSE 1 + (CHOOSE m \in {tbl[k].id : k \in 1..Len(tbl)} :
                  \A k \in 1..Len(tbl) : tbl[k].id <= m)

\* _log_trade: INSERT INTO trades
LogTrade(tbl, ts, sym, act, p, q, bal) ==
    Append(tbl, [id |-> NextId(tbl), timestamp |-> isoformat(ts), symbol |-> sym,
                 action |-> act, price |-> p, quantity |-> q, balance |-> bal])

\* an _init_db that writes the cash row at every start
InitDbReset(tbl, balance) == {[id |-> 1, balance |-> balance]}

\* _init_db: the tables are created when missing, and the cash row is
\* inserted only when there is none
InitDb(tbl, balance) ==
    IF \E r \in tbl : r.id = 1 THEN tbl
    ELSE tbl \cup {[id |-> 1, balance |-> balance]}

\* ------------------------------------------------------------------------
\* _evaluate_strategy: the moving averages and the crossover.

\* a Python index of a slice bound, clamped into 0..n
SliceIndex(k, n) ==
    IF k < 0 THEN (IF k + n < 0 THEN 0 ELSE k + n)
    ELSE (IF k > n THEN n ELSE k)

\* Python s[lo:hi]
Slice(s, lo, hi) ==
    LET n == Len(s)
        a == SliceIndex(lo, n)
        b == SliceIndex(hi, n)
    IN  IF a >= b THEN <<>> ELSE SubSeq(s, a + 1, b)

\* Python s[lo:]
SliceFrom(s, lo) == Slice(s, lo, Len(s))

\* Python sum(s); the exact sum does not depend on the order of the
\* additions, and halving the sequence keeps the recursion shallow
RECURSIVE Sum(_)
Sum(s) ==
    IF Len(s) = 0 THEN Zero
    ELSE IF Len(s) = 1 THEN s[1]
    ELSE LET h == Len(s) \div 2
         IN  RAdd(Sum(SubSeq(s, 1, h)), Sum(SubSeq(s, h + 1, Len(s))))

ShortMaOld(prices, s) == RDiv(Sum(Slice(prices, -(s + 1), -1)), R(s))
LongMaOld(prices, l) == RDiv(Sum(Slice(prices, -(l + 1), -1)), R(l))
ShortMaNew(prices, s) == RDiv(Sum(SliceFrom(prices, -s)), R(s))
LongMaNew(prices, l) == RDiv(Sum(SliceFrom(prices, -l)), R(l))

\* a golden cross test that wants the short average strictly below the long
\* one a step ago
GoldenCrossStrict(prices, s, l) ==
    /\ RLt(ShortMaOld(prices, s), LongMaOld(prices, l))
    /\ RLt(LongMaNew(prices, l), ShortMaNew(prices, s))

\* the golden cross test of _evaluate_strategy
GoldenCross(prices, s, l) ==
    /\ RLe(ShortMaOld(prices, s), LongMaOld(prices, l))
    /\ RLt(LongMaNew(prices, l), ShortMaNew(prices, s))

\* the death cross test of _evaluate_strategy
DeathCross(prices, s, l) ==
    /\ RLe(LongMaOld(prices, l), ShortMaOld(prices, s))
    /\ RLt(ShortMaNew(prices, s), LongMaNew(prices, l))

\* a history test that is content with long_ma prices
EnoughDataOffByOne(prices, l) == ~(Len(prices) < l)

\* the test "not enough data yet" of _evaluate_strategy
EnoughData(prices, l) == ~(Len(prices) < l + 1)

\* the branch _evaluate_strategy takes on the prices it read
Signal(prices, s, l) ==
    IF ~EnoughData(prices, l) THEN "HOLD"
    ELSE IF GoldenCross(prices, s, l) THEN "BUY"
    ELSE IF DeathCross(prices, s, l) THEN "SELL"
    ELSE "HOLD"

\* ------------------------------------------------------------------------
\* The inputs: the configuration main() or another caller passes, and the
\* quotes the price feed returns.

\* (short_ma, long_ma, position_size_fraction, starting_balance)
Configs ==
    { <<1, 2, <<1, 20>>, R(10000)>>,
      <<1, 2, <<1, 1>>, R(10000)>>,
      <<1, 2, <<1, 20>>, <<1, 500>>>>,
      <<2, 3, <<1, 20>>, R(10000)>> }
\* float(data["price"])
Feed == {R(50), R(100)}

\* ------------------------------------------------------------------------
\* The process: run() calling _job() at every tick.

NoEntry == [cash |-> {}, portfolio |-> {}, trades |-> <<>>]
NoTick == [cash |-> Zero, trades |-> 0]

Init ==
    /\ \E c \in Configs :
           /\ short_ma = c[1]
           /\ long_ma = c[2]
           /\ position_size_fraction = c[3]
           /\ starting_balance = c[4]
    /\ tbl_prices = {}
    /\ tbl_trades = <<>>
    /\ tbl_portfolio = {}
    /\ tbl_cash = InitDb({}, starting_balance)
    /\ pc = "run"
    /\ clock = 0
    /\ ticks = 0
    /\ repeats = 0
    /\ restarts = 0
    /\ timestamp = 0
    /\ idx = 0
    /\ price = None
    /\ signal = "NONE"
    /\ current_price = None
    /\ action = "NONE"
    /\ cash = Zero
    /\ quantity_owned = Zero
    /\ qty = Zero
    /\ new_cash = Zero
    /\ new_qty = Zero
    /\ entry = NoEntry
    /\ tick0 = NoTick

\* the locals of _evaluate_strategy and _execute_trade are gone on return
ClearLocals ==
    /\ signal' = "NONE"
    /\ current_price' = None
    /\ action' = "NONE"
    /\ cash' = Zero
    /\ quantity_owned' = Zero
    /\ qty' = Zero
    /\ new_cash' = Zero
    /\ new_qty' = Zero
    /\ entry' = NoEntry

\* a loop that ends the tick instead of going on to the next symbol
NextSymbolAbort ==
    /\ price' = None
    /\ pc' = "sleep"
    /\ idx' = 0

\* _job: the for loop goes on to the next symbol, or _job returns and run()
\* waits for the next tick
NextSymbol ==
    /\ price' = None
    /\ IF idx < Len(symbols)
           THEN pc' = "fetch" /\ idx' = idx + 1
           ELSE pc' = "sleep" /\ idx' = 0

\* run(): one iteration of the loop enters _job, which takes its timestamp
Tick ==
    /\ pc \in {"run", "sleep"}
    /\ ticks < MaxTicks
    /\ ticks' = ticks + 1
    /\ \/ clock' = clock + 1 /\ repeats' = repeats
       \/ clock > 0 /\ repeats < MaxRepeats /\ clock' = clock /\ repeats' = repeats + 1
    /\ timestamp' = clock'
    /\ tick0' = [cash |-> GetCashBalance(tbl_cash), trades |-> Len(tbl_trades)]
    /\ price' = None
    /\ IF Len(symbols) > 0
           THEN pc' = "fetch" /\ idx' = 1
           ELSE pc' = "sleep" /\ idx' = 0
    /\ ClearLocals
    /\ UNCHANGED <<db, config, restarts>>

\* _job: _fetch_price returns a quote
FetchPrice ==
    /\ pc = "fetch"
    /\ \E p \in Feed : price' = p
    /\ pc' = "store"
    /\ UNCHANGED <<db, config, counters, timestamp, idx,
                   signal, execLocals, entry, tick0>>

\* _job: _fetch_price caught an exception and returns None
FetchPriceFails ==
    /\ pc = "fetch"
    /\ NextSymbol
    /\ UNCHANGED <<db, config, counters, timestamp,
                   signal, execLocals, entry, tick0>>

\* _job: _store_price
StorePriceStep ==
    /\ pc = "store"
    /\ tbl_prices' = StorePrice(tbl_prices, timestamp, symbols[idx], price)
    /\ pc' = "evaluate"
    /\ UNCHANGED <<tbl_trades, tbl_portfolio, tbl_cash, config, counters,
                   timestamp, idx, price, signal, execLocals,
                   entry, tick0>>

\* _job: _evaluate_strategy reads the recent prices and takes a branch
EvaluateStrategy ==
    /\ pc = "evaluate"
    /\ LET prices == GetRecentPrices(tbl_prices, symbols[idx], long_ma + 1)
           sig == Signal(prices, short_ma, long_ma)
       IN  /\ signal' = sig
           /\ IF sig = "HOLD"
                  THEN /\ NextSymbol
                       /\ UNCHANGED <<current_price, action>>
                  ELSE /\ current_price' = prices[Len(prices)]
                       /\ action' = sig
                       /\ pc' = "execute"
                       /\ UNCHANGED <<idx, price>>
    /\ UNCHANGED <<db, config, counters, timestamp,
                   cash, quantity_owned, qty, new_cash, new_qty, entry, tick0>>

\* a spend that ignores the position size
SpendAll(c, fraction) == c

\* spend = cash * self.position_size_fraction
Spend(c, fraction) == RMul(c, fraction)

\* a minimum of 0.00001 instead of 0.0001
TooLittleCashTenth(spend) == RLt(spend, <<1, 100000>>)

\* the test "too little cash to place an order" of _execute_trade
TooLittleCash(spend) == RLt(spend, MinSpend)

\* a SELL branch that does not look at the holding
CanSellAny(act, owned) == act = "SELL"

\* the test of the SELL branch of _execute_trade
CanSell(act, owned) == act = "SELL" /\ RLt(Zero, owned)

\* _execute_trade up to its first write: the two reads, the branch and the
\* amounts; a BUY at price 0 raises ZeroDivisionError at spend / price
ExecuteTradeBegin ==
    /\ pc = "execute"
    /\ LET c == GetCashBalance(tbl_cash)
           owned == GetPortfolioQuantity(tbl_portfolio, symbols[idx])
           spend == Spend(c, position_size_fraction)
       IN  /\ cash' = c
           /\ quantity_owned' = owned
           /\ entry' = [cash |-> tbl_cash, portfolio |-> tbl_portfolio,
                        trades |-> tbl_trades]
           /\ IF action = "BUY"
                  THEN IF TooLittleCash(spend)
                           THEN /\ pc' = "returned"
                                /\ UNCHANGED <<qty, new_cash, new_qty>>
                       ELSE IF current_price = Zero
                           THEN /\ pc' = "crashed"
                                /\ UNCHANGED <<qty, new_cash, new_qty>>
                       ELSE /\ qty' = RDiv(spend, current_price)
                            /\ new_cash' = RSub(c, spend)
                            /\ new_qty' = RAdd(owned, RDiv(spend, current_price))
                            /\ pc' = "update_cash"
                  ELSE IF CanSell(action, owned)
                           THEN /\ qty' = owned
                                /\ new_cash' = RAdd(c, RMul(owned, current_price))
                                /\ new_qty' = Zero
                                /\ pc' = "update_cash"
                           ELSE /\ pc' = "returned"
                                /\ UNCHANGED <<qty, new_cash, new_qty>>
    /\ UNCHANGED <<db, config, counters, timestamp, idx,
                   price, signal, current_price, action, tick0>>

\* _execute_trade: self._update_cash_balance(new_cash)
UpdateCashStep ==
    /\ pc = "update_cash"
    /\ tbl_cash' = UpdateCashBalance(tbl_cash, new_cash)
    /\ pc' = "update_portfolio"
    /\ UNCHANGED <<tbl_prices, tbl_trades, tbl_portfolio, config, counters,
                   timestamp, idx, price, signal, execLocals,
                   entry, tick0>>

\* _execute_trade: self._update_portfolio_quantity(symbol, new_qty), and
\* (symbol, 0.0) for a SELL
UpdatePortfolioStep ==
    /\ pc = "update_portfolio"
    /\ tbl_portfolio' = UpdatePortfolioQuantity(tbl_portfolio, symbols[idx], new_qty)
    /\ pc' = "log_trade"
    /\ UNCHANGED <<tbl_prices, tbl_trades, tbl_cash, config, counters,
                   timestamp, idx, price, signal, execLocals,
                   entry, tick0>>

\* a logged quantity without the sign of a SELL
LoggedQuantityUnsigned(act, q) == q

\* the quantity _execute_trade passes to _log_trade: qty for a BUY, -qty for
\* a SELL
LoggedQuantity(act, q) == IF act = "SELL" THEN RNeg(q) ELSE q

\* _execute_trade: self._log_trade(...), then the print
LogTradeStep ==
    /\ pc = "log_trade"
    /\ tbl_trades' = LogTrade(tbl_trades, clock, symbols[idx], action,
                              current_price, LoggedQuantity(action, qty), new_cash)
    /\ pc' = "traded"
    /\ UNCHANGED <<tbl_prices, tbl_portfolio, tbl_cash, config, counters,
                   timestamp, idx, price, signal, execLocals,
                   entry, tick0>>

\* _execute_trade and _evaluate_strategy return to the loop of _job
ExecuteTradeReturn ==
    /\ pc \in {"returned", "traded"}
    /\ NextSymbol
    /\ ClearLocals
    /\ UNCHANGED <<db, config, counters, timestamp, tick0>>

\* the positions at which the process writes to the database
WritePositions == {"store", "update_cash", "update_portfolio", "log_trade"}

\* a write raises (sqlite3.Error: the store is unavailable, locked, full):
\* nothing of that write is committed, no caller catches the exception
\* (main() catches KeyboardInterrupt and SystemExit only) and the process ends
PersistenceFailure(at) ==
    /\ pc = at
    /\ pc' = "crashed"
    /\ UNCHANGED <<db, config, counters, timestamp, idx,
                   price, signal, execLocals, entry, tick0>>

\* main() is started again on the same database: __init__ runs _init_db
Restart ==
    /\ pc = "crashed"
    /\ restarts < MaxRestarts
    /\ restarts' = restarts + 1
    /\ tbl_cash' = InitDb(tbl_cash, starting_balance)
    /\ pc' = "run"
    /\ timestamp' = 0
    /\ idx' = 0
    /\ price' = None
    /\ tick0' = NoTick
    /\ ClearLocals
    /\ UNCHANGED <<tbl_prices, tbl_trades, tbl_portfolio, config, clock, ticks,
                   repeats>>

Next ==
    \/ Tick
    \/ FetchPrice
    \/ FetchPriceFails
    \/ StorePriceStep
    \/ EvaluateStrategy
    \/ ExecuteTradeBegin
    \/ UpdateCashStep
    \/ UpdatePortfolioStep
    \/ LogTradeStep
    \/ ExecuteTradeReturn

\* the simulator on a store that works
Spec == Init /\ [][Next]_vars

NextFail ==
    \/ Next
    \/ \E at \in WritePositions : PersistenceFailure(at)
    \/ Restart

\* the simulator on a store whose writes may fail
SpecFail == Init /\ [][NextFail]_vars

\* ------------------------------------------------------------------------
\* The simulator entering _evaluate_strategy for the first symbol with a
\* given price history of that symbol in the store: the state _job is in
\* after the feed has returned the quotes of the history, one per tick, and
\* every fetch for the other symbols has failed.

\* the series of 21 quotes [100]*15 + [90, 88, 95, 105, 112, 120]
GoldenSeries ==
    [k \in 1..15 |-> R(100)] \o <<R(90), R(88), R(95), R(105), R(112), R(120)>>
\* a series of 21 equal quotes, on which no average crosses another
FlatSeries == [k \in 1..21 |-> R(100)]

\* the quotes of the short histories
Quotes == {R(50), R(100), R(150)}

\* (short_ma, long_ma, quotes in the order of their timestamps)
Histories ==
    {<<5, 20, GoldenSeries>>, <<5, 20, FlatSeries>>}
        \cup UNION {{<<1, 2, h>> : h \in [1..n -> Quotes]} : n \in 1..4}
        \cup UNION {{<<2, 3, h>> : h \in [1..n -> Quotes]} : n \in 1..5}

InitEval ==
    /\ \E h \in Histories :
           /\ short_ma = h[1]
           /\ long_ma = h[2]
           /\ tbl_prices = {[timestamp |-> isoformat(k), symbol |-> symbols[1],
                             price |-> h[3][k]] : k \in 1..Len(h[3])}
           /\ clock = Len(h[3])
           /\ timestamp = Len(h[3])
           /\ price = h[3][Len(h[3])]
    /\ position_size_fraction = <<1, 20>>
    /\ starting_balance = R(10000)
    /\ tbl_trades = <<>>
    /\ tbl_portfolio = {}
    /\ tbl_cash = InitDb({}, starting_balance)
    /\ pc = "evaluate"
    /\ idx = 1
    /\ ticks = MaxTicks - 1
    /\ repeats = 0
    /\ restarts = 0
    /\ signal = "NONE"
    /\ current_price = None
    /\ action = "NONE"
    /\ cash = Zero
    /\ quantity_owned = Zero
    /\ qty = Zero
    /\ new_cash = Zero
    /\ new_qty = Zero
    /\ entry = NoEntry
    /\ tick0 = [cash |-> starting_balance, trades |-> 0]

SpecEval == InitEval /\ [][Next]_vars

\* the same start on a store whose writes may fail, with the restart of the
\* process on the database it left
SpecEvalFail == InitEval /\ [][NextFail]_vars

\* ------------------------------------------------------------------------
\* The price history alone: _store_price called with any clock reading, any
\* symbol and any quote, on a store that starts empty. The readings come in
\* any order (the wall clock may be set back between two ticks). repeats
\* counts the writes to a key that is already in the table, up to MaxRewrites;
\* the writes go on after that.

InitStore ==
    /\ short_ma = 1
    /\ long_ma = 2
    /\ position_size_fraction = <<1, 20>>
    /\ starting_balance = R(10000)
    /\ tbl_prices = {}
    /\ tbl_trades = <<>>
    /\ tbl_portfolio = {}
    /\ tbl_cash = InitDb({}, starting_balance)
    /\ pc = "store"
    /\ clock = 0
    /\ ticks = 0
    /\ repeats = 0
    /\ restarts = 0
    /\ timestamp = 0
    /\ idx = 1
    /\ price = R(50)
    /\ signal = "NONE"
    /\ current_price = None
    /\ action = "NONE"
    /\ cash = Zero
    /\ quantity_owned = Zero
    /\ qty = Zero
    /\ new_cash = Zero
    /\ new_qty = Zero
    /\ entry = NoEntry
    /\ tick0 = [cash |-> starting_balance, trades |-> 0]

\* the rows of a table of prices with the key (ts, sym)
RowsAt(tbl, ts, sym) == {r \in tbl : r.timestamp = isoformat(ts) /\ r.symbol = sym}

\* _job with a clock reading, a symbol and a quote that are drawn:
\* self._store_price(timestamp, symbol, price)
StorePriceCall ==
    /\ pc = "store"
    /\ \E ts \in 0..MaxStamp, k \in 1..Len(symbols), p \in Feed :
           /\ timestamp' = ts
           /\ idx' = k
           /\ price' = p
           /\ tbl_prices' = StorePrice(tbl_prices, ts, symbols[k], p)
           /\ IF RowsAt(tbl_prices, ts, symbols[k]) # {} /\ repeats < MaxRewrites
                  THEN repeats' = repeats + 1
                  ELSE repeats' = repeats
    /\ UNCHANGED <<tbl_trades, tbl_portfolio, tbl_cash, config, pc, clock,
                   ticks, restarts, signal, execLocals, entry, tick0>>

SpecStore == InitStore /\ [][StorePriceCall]_vars

\* ------------------------------------------------------------------------
\* The simulator with a feed that returns any number: float(data["price"])
\* takes every numeric text, and nothing between _fetch_price and
\* _store_price looks at the value. The run starts after two ticks in which
\* the feed returned a quote of Feed for the first symbol, every fetch for
\* the other symbol failed, and both evaluations returned for lack of data.

\* float(data["price"]) for any numeric text, "0.00" and "-50" included
AnyQuotes == {R(-100), R(-50), R(0), R(50), R(100)}

\* (position_size_fraction, quote of the first tick, quote of the second tick)
QuoteStarts == {<<1, 20>>, <<1, 1>>} \X Feed \X Feed

InitQuote ==
    /\ \E q \in QuoteStarts :
           /\ position_size_fraction = q[1]
           /\ tbl_prices = {[timestamp |-> isoformat(k), symbol |-> symbols[1],
                             price |-> q[k + 1]] : k \in 1..2}
    /\ short_ma = 1
    /\ long_ma = 2
    /\ starting_balance = R(10000)
    /\ tbl_trades = <<>>
    /\ tbl_portfolio = {}
    /\ tbl_cash = InitDb({}, starting_balance)
    /\ pc = "sleep"
    /\ clock = 2
    /\ ticks = MaxTicks - 2
    /\ repeats = 0
    /\ restarts = 0
    /\ timestamp = 2
    /\ idx = 0
    /\ price = None
    /\ signal = "NONE"
    /\ current_price = None
    /\ action = "NONE"
    /\ cash = Zero
    /\ quantity_owned = Zero
    /\ qty = Zero
    /\ new_cash = Zero
    /\ new_qty = Zero
    /\ entry = NoEntry
    /\ tick0 = [cash |-> starting_balance, trades |-> 0]

\* _job: _fetch_price returns float(data["price"]), whatever the number is
FetchAnyQuote ==
    /\ pc = "fetch"
    /\ \E p \in AnyQuotes : price' = p
    /\ pc' = "store"
    /\ UNCHANGED <<db, config, counters, timestamp, idx,
                   signal, execLocals, entry, tick0>>

NextQuote ==
    \/ Tick
    \/ FetchAnyQuote
    \/ FetchPriceFails
    \/ StorePriceStep
    \/ EvaluateStrategy
    \/ ExecuteTradeBegin
    \/ UpdateCashStep
    \/ UpdatePortfolioStep
    \/ LogTradeStep
    \/ ExecuteTradeReturn

SpecQuote == InitQuote /\ [][NextQuote]_vars

\* ------------------------------------------------------------------------
\* Properties.

\* the positions of _execute_trade after its branch was taken
WritingPositions == {"update_cash", "update_portfolio", "log_trade", "traded"}
AfterBegin == WritingPositions \cup {"returned"}

\* the rows of prices of one symbol
Observations(sym) == {r \in tbl_prices : r.symbol = sym}

\* the amount a Trade row moved: its quantity at its price
TradeAmount(t) == RMul(t.quantity, t.price)

\* the symbol _execute_trade is running for, its holding at entry and now,
\* and the cash balance at entry and now
Sym == symbols[idx]
HoldingAtEntry == GetPortfolioQuantity(entry.portfolio, Sym)
HoldingNow == GetPortfolioQuantity(tbl_portfolio, Sym)
CashAtEntry == GetCashBalance(entry.cash)
CashNow == GetCashBalance(tbl_cash)
OtherHoldingsUnchanged ==
    {r \in tbl_portfolio : r.symbol # Sym} = {r \in entry.portfolio : r.symbol # Sym}
\* exactly one row was appended to the ledger since entry
OneTradeAppended ==
    /\ Len(tbl_trades) = Len(entry.trades) + 1
    /\ SubSeq(tbl_trades, 1, Len(entry.trades)) = entry.trades
LastTrade == tbl_trades[Len(tbl_trades)]
StoreAsAtEntry ==
    /\ tbl_cash = entry.cash
    /\ tbl_portfolio = entry.portfolio
    /\ tbl_trades = entry.trades

\* C1: while _execute_trade runs, no committed state of the store has the
\* cash balance changed for the trade and the holding of the symbol still as
\* it was, nor the holding changed and the cash balance still as it was.
C1_CashAndHoldingTogether ==
    pc \in WritingPositions => ((CashNow # CashAtEntry) <=> (HoldingNow # HoldingAtEntry))

Mean(w, a, b) == RDiv(Sum(SubSeq(w, a, b)), R(b - a + 1))

\* the window _evaluate_strategy is about to read
Window == GetRecentPrices(tbl_prices, symbols[idx], long_ma + 1)

\* C3: on a window of long_ma + 1 chronological prices, evaluation issues BUY
\* exactly when shortOld <= longOld and shortNew > longNew, SELL exactly when
\* shortOld >= longOld and shortNew < longNew, and nothing otherwise, the
\* four values being the means of the short_ma and long_ma prices that end
\* one observation before the newest and at the newest; on shortOld = longOld
\* the comparison of shortNew with longNew decides alone; evaluation itself
\* writes nothing; and [100]*15 + [90,88,95,105,112,120] with windows 5 and
\* 20 gives BUY.
C3_CrossoverRule ==
    [][(pc = "evaluate" /\ Len(Window) = long_ma + 1) =>
        LET w == Window
            n == long_ma + 1
            shortOld == Mean(w, n - short_ma, n - 1)
            longOld == Mean(w, 1, n - 1)
            shortNew == Mean(w, n - short_ma + 1, n)
            longNew == Mean(w, 2, n)
            buy == RLe(shortOld, longOld) /\ RLt(longNew, shortNew)
            sell == RLe(longOld, shortOld) /\ RLt(shortNew, longNew)
        IN  /\ (pc' = "execute" /\ action' = "BUY") <=> buy
            /\ (pc' = "execute" /\ action' = "SELL") <=> sell
            /\ (pc' # "execute" /\ action' = "NONE") <=> (~buy /\ ~sell)
            /\ shortOld = longOld =>
                   /\ (pc' = "execute" /\ action' = "BUY") <=> RLt(longNew, shortNew)
                   /\ (pc' = "execute" /\ action' = "SELL") <=> RLt(shortNew, longNew)
            /\ (w = GoldenSeries /\ short_ma = 5 /\ long_ma = 20) =>
                   (pc' = "execute" /\ action' = "BUY")
            /\ db' = db
    ]_vars

C3_Witness ==
    /\ pc = "execute"
    /\ action = "BUY"
    /\ short_ma = 5
    /\ long_ma = 20
    /\ GetRecentPrices(tbl_prices, Sym, 21) = GoldenSeries

\* C4: while a symbol has fewer than long_ma + 1 price rows (one per distinct
\* timestamp), its evaluation is HOLD: _execute_trade is not entered for it,
\* the ledger has no trade of it and the portfolio no row of it; and while
\* this is so for every symbol the cash balance is the starting balance.
C4_InsufficientHistoryHolds ==
    /\ \A k \in 1..Len(symbols) :
           Cardinality(Observations(symbols[k])) < long_ma + 1 =>
               /\ ~(idx = k /\ pc \in {"execute"} \cup AfterBegin)
               /\ \A j \in 1..Len(tbl_trades) : tbl_trades[j].symbol # symbols[k]
               /\ \A r \in tbl_portfolio : r.symbol # symbols[k]
    /\ (\A k \in 1..Len(symbols) : Cardinality(Observations(symbols[k])) < long_ma + 1)
           => CashNow = starting_balance

\* the first symbol was evaluated to HOLD in a tick that is at least the
\* (long_ma + 1)-th, on fewer than long_ma + 1 observations
C4_Witness ==
    /\ pc = "fetch"
    /\ idx = 2
    /\ signal = "HOLD"
    /\ ticks >= long_ma + 1
    /\ Cardinality(Observations(symbols[1])) < long_ma + 1
    /\ Cardinality(Observations(symbols[1])) > 0

\* C5: a BUY entered with cash balance C, whose spend C * fraction is not
\* below the minimum, is not skipped; when it is done the cash balance is
\* C - spend, the holding of the symbol has grown by spend / price, no other
\* holding has changed, and one Trade was appended: BUY at the price given,
\* quantity spend / price, balance C - spend. With C = 10000, fraction 0.05
\* and price 100: spend 500, quantity 5, balance 9500, holding 5 more.
C5_BuyEffect ==
    LET spend == RMul(CashAtEntry, position_size_fraction)
        q == RDiv(spend, current_price)
    IN  /\ (pc = "returned" /\ action = "BUY") => RLt(spend, <<1, 10000>>)
        /\ (pc = "traded" /\ action = "BUY") =>
               /\ ~RLt(spend, <<1, 10000>>)
               /\ CashNow = RSub(CashAtEntry, spend)
               /\ HoldingNow = RAdd(HoldingAtEntry, q)
               /\ OtherHoldingsUnchanged
               /\ OneTradeAppended
               /\ LastTrade.action = "BUY"
               /\ LastTrade.symbol = Sym
               /\ LastTrade.price = current_price
               /\ LastTrade.quantity = q
               /\ LastTrade.balance = RSub(CashAtEntry, spend)
               /\ (/\ CashAtEntry = R(10000)
                   /\ position_size_fraction = <<1, 20>>
                   /\ current_price = R(100))
                  => /\ spend = R(500)
                     /\ LastTrade.quantity = R(5)
                     /\ CashNow = R(9500)
                     /\ RSub(HoldingNow, HoldingAtEntry) = R(5)

C5_Witness ==
    /\ pc = "traded"
    /\ action = "BUY"
    /\ CashAtEntry = R(10000)
    /\ position_size_fraction = <<1, 20>>
    /\ current_price = R(100)

\* C6: a SELL entered for a symbol with holding Q > 0 at price P is not
\* skipped; when it is done the symbol has no holding row, the cash balance
\* has grown by Q * P, no other holding has changed, and one Trade was
\* appended: SELL at P, quantity -Q, balance the new cash balance.
C6_SellEffect ==
    /\ (pc = "returned" /\ action = "SELL") => ~RLt(Zero, HoldingAtEntry)
    /\ (pc = "traded" /\ action = "SELL") =>
           /\ RLt(Zero, HoldingAtEntry)
           /\ \A r \in tbl_portfolio : r.symbol # Sym
           /\ CashNow = RAdd(CashAtEntry, RMul(HoldingAtEntry, current_price))
           /\ OtherHoldingsUnchanged
           /\ OneTradeAppended
           /\ LastTrade.action = "SELL"
           /\ LastTrade.symbol = Sym
           /\ LastTrade.price = current_price
           /\ LastTrade.quantity = RNeg(HoldingAtEntry)
           /\ LastTrade.balance = CashNow

C6_Witness ==
    /\ pc = "traded"
    /\ action = "SELL"
    /\ RLt(Zero, HoldingAtEntry)

\* C7: a BUY whose spend, cash balance * fraction, is below 0.0001 returns
\* without a write and without an error: cash, holdings and ledger are as
\* they were at entry.
C7_SmallBuySkipped ==
    (/\ pc \in AfterBegin \cup {"crashed"}
     /\ action = "BUY"
     /\ RLt(RMul(CashAtEntry, position_size_fraction), <<1, 10000>>))
    => (pc = "returned" /\ StoreAsAtEntry)

C7_Witness ==
    /\ pc = "returned"
    /\ action = "BUY"
    /\ RLt(Zero, RMul(CashAtEntry, position_size_fraction))
    /\ RLt(RMul(CashAtEntry, position_size_fraction), <<1, 10000>>)

\* C8: a SELL for a symbol without a holding row returns without a write and
\* without an error: cash, holdings and ledger are as they were at entry.
C8_SellWithoutHoldingNoOp ==
    (/\ pc \in AfterBegin \cup {"crashed"}
     /\ action = "SELL"
     /\ \A r \in entry.portfolio : r.symbol # Sym)
    => (pc = "returned" /\ StoreAsAtEntry)

C8_Witness ==
    /\ pc = "returned"
    /\ action = "SELL"
    /\ \A r \in entry.portfolio : r.symbol # Sym

\* C9: when a write of _execute_trade has failed, the store is not left
\* half-completed: the cash balance changed for the trade with the holding
\* not changed for it (or the reverse), or the account changed with no
\* ledger entry for the trade.
C9_NoHalfCompletedTrade ==
    (pc = "crashed" /\ action \in {"BUY", "SELL"} /\ entry # NoEntry) =>
        /\ (CashNow # CashAtEntry) <=> (HoldingNow # HoldingAtEntry)
        /\ (CashNow # CashAtEntry \/ HoldingNow # HoldingAtEntry)
               => Len(tbl_trades) = Len(entry.trades) + 1

\* C10: a failed fetch leaves the store as it is and takes _job straight to
\* the fetch of the next symbol of the tick (to the end of the tick after the
\* last one), so nothing is recorded, evaluated or executed for the failed
\* symbol; _job leaves the tick only after the last symbol and moves from
\* one symbol to the next in order; and every tick starts with the fetch of
\* the first symbol, so a symbol that failed is fetched again in the next.
C10_FetchFailureSkipsSymbolOnly ==
    [][/\ (pc = "fetch" /\ pc' # "store") =>
              /\ db' = db
              /\ IF idx < Len(symbols)
                     THEN pc' = "fetch" /\ idx' = idx + 1
                     ELSE pc' = "sleep"
       /\ (pc' = "sleep" /\ pc # "sleep") => idx = Len(symbols)
       /\ (pc' = "fetch" /\ ticks' = ticks) => idx' = idx + 1
       /\ ticks' # ticks => (pc' = "fetch" /\ idx' = 1)
    ]_vars

\* the fetch of the first symbol failed in a tick in which the second was
\* recorded, and the first symbol was recorded in a later tick
C10_Witness ==
    \E e \in Observations(symbols[2]) :
        /\ \A b \in Observations(symbols[1]) : b.timestamp # e.timestamp
        /\ \E b \in Observations(symbols[1]) : TextLt(e.timestamp, b.timestamp)

\* ------------------------------------------------------------------------
\* the instant a stored timestamp text stands for
Instant(text) ==
    text[1] * UsecPerSec + (IF Len(text) > 1 THEN text[2] ELSE 0)

\* every count recentPrices is asked for, up to more than a symbol can hold
Counts == 0..(MaxStamp + 2)

\* C11: a write of a price at a (timestamp, symbol) key leaves exactly one row
\* with that key, holding the price just written; when the key was already
\* stored, recentPrices asked for all observations of the symbol returns as
\* many as before the write, and no other row is touched.
C11_RewriteReplaces ==
    [][LET sym == symbols[idx']
           old == RowsAt(tbl_prices, timestamp', sym)
       IN  /\ RowsAt(tbl_prices', timestamp', sym)
                  = {[timestamp |-> isoformat(timestamp'), symbol |-> sym,
                      price |-> price']}
           /\ tbl_prices' \ RowsAt(tbl_prices', timestamp', sym) = tbl_prices \ old
           /\ old # {} =>
                  Len(GetRecentPrices(tbl_prices', sym, MaxStamp + 2))
                      = Len(GetRecentPrices(tbl_prices, sym, MaxStamp + 2))
      ]_vars

\* the only key of the table was written again after it was stored: the
\* symbol has one observation and its price is the last one written
C11_Witness ==
    /\ repeats = MaxRewrites
    /\ Cardinality(tbl_prices) = 1
    /\ GetRecentPrices(tbl_prices, symbols[idx], MaxStamp + 2) = <<price>>

\* C12: recentPrices(symbol, count) has min(count, stored) entries; its k-th
\* entry is the price of the observation of that symbol that has exactly
\* (entries - k) observations of the symbol after it in time, so the entries
\* are the latest ones, oldest first, and none is of another symbol.
C12_RecentPrices ==
    \A sym \in Symbols, count \in Counts :
        LET res == GetRecentPrices(tbl_prices, sym, count)
            rows == Observations(sym)
            n == IF count < Cardinality(rows) THEN count ELSE Cardinality(rows)
        IN  /\ Len(res) = n
            /\ \A k \in 1..n :
                   \E r \in rows :
                       /\ res[k] = r.price
                       /\ Cardinality({o \in rows :
                              Instant(o.timestamp) > Instant(r.timestamp)}) = n - k

\* the first symbol holds an observation at every reading, the oldest at 100
\* and the later ones at 50, 100; the other symbol holds observations too; a
\* count of 2 leaves the oldest out and a count above the stored number
\* returns them all
C12_Witness ==
    /\ Cardinality(Observations(symbols[1])) = MaxStamp + 1
    /\ Cardinality(Observations(symbols[2])) > 0
    /\ \E r \in Observations(symbols[1]) :
           Instant(r.timestamp) = 0 /\ r.price = R(100)
    /\ GetRecentPrices(tbl_prices, symbols[1], 2) = <<R(50), R(100)>>
    /\ Len(GetRecentPrices(tbl_prices, symbols[1], MaxStamp + 2)) = MaxStamp + 1
\* ------------------------------------------------------------------------
\* C13: the cash balance is never below 0.
C13_CashNonNegative == RLe(Zero, CashNow)

\* C14: every row of the holdings has a quantity above 0.
C14_HoldingsPositive == \A r \in tbl_portfolio : RLt(Zero, r.quantity)

\* C16: every observation in the price history has a price above 0, and no
\* price that is not above 0 reaches _evaluate_strategy or _execute_trade.
C16_PricesPositive ==
    /\ \A r \in tbl_prices : RLt(Zero, r.price)
    /\ pc = "evaluate" => RLt(Zero, price)
    /\ pc \in {"execute"} \cup AfterBegin => RLt(Zero, current_price)
\* ------------------------------------------------------------------------
\* C15: every step leaves the ledger as it is or appends one Trade to it: the
\* ledger before the step is a prefix of the ledger after it, and the id of
\* the appended Trade is above the id of every Trade before it.
C15_LedgerAppendOnly ==
    [][\/ tbl_trades' = tbl_trades
       \/ /\ Len(tbl_trades') = Len(tbl_trades) + 1
          /\ SubSeq(tbl_trades', 1, Len(tbl_trades)) = tbl_trades
          /\ \A k \in 1..Len(tbl_trades) :
                 tbl_trades'[Len(tbl_trades')].id > tbl_trades[k].id
      ]_vars

\* three Trades were appended one after another, the last one this step
C15_Witness ==
    /\ pc = "traded"
    /\ Len(tbl_trades) >= 3
    /\ \A k \in 1..(Len(tbl_trades) - 1) : tbl_trades[k].id < tbl_trades[k + 1].id
\* ------------------------------------------------------------------------
\* C18: a start on a new database has the starting balance as its cash, and
\* a start on a database that holds an account already leaves the cash
\* balance, the holdings, the ledger and the price history as they are.
C18_RestartKeepsAccount ==
    /\ CashNow = starting_balance
    /\ [][pc = "crashed" /\ pc' = "run" => db' = db]_vars

\* the process was started again on a database with a Trade in the ledger, a
\* holding, a price history and a cash balance that is not the starting one
C18_Witness ==
    /\ restarts > 0
    /\ pc = "run"
    /\ Len(tbl_trades) > 0
    /\ tbl_portfolio # {}
    /\ tbl_prices # {}
    /\ CashNow # starting_balance
\* ------------------------------------------------------------------------
\* the account: the cash balance and the holdings
Account == <<tbl_cash, tbl_portfolio>>
\* the positions from which _execute_trade writes
TradeWrites == {"update_cash", "update_portfolio", "log_trade"}
\* an execution of a trade has ended, by a return or by an exception
ExecutionOver == pc \in {"returned", "traded", "crashed"} /\ entry # NoEntry
AccountChanged == tbl_cash # entry.cash \/ tbl_portfolio # entry.portfolio

\* C17: a step that is not a write of _execute_trade (a fetch, the recording
\* of a price, an evaluation, the start of a tick) leaves the cash balance,
\* the holdings and the ledger as they are; and when an execution has ended,
\* the account differs from the account at its entry exactly when one Trade
\* was appended to the ledger since the entry, the ledger being unchanged
\* otherwise.
C17_AccountChangesWithTrade ==
    [][/\ pc \notin TradeWrites => UNCHANGED <<tbl_cash, tbl_portfolio, tbl_trades>>
       /\ ExecutionOver' =>
              /\ AccountChanged' <=> OneTradeAppended'
              /\ ~OneTradeAppended' => tbl_trades' = entry'.trades
      ]_vars

\* no execution of a trade is in progress and the process runs
NoExecution == pc \in {"run", "sleep", "fetch", "store", "evaluate"}

\* C19: when no execution of a trade is in progress, the cash balance is the
\* balance logged with the last Trade of the ledger, and the starting balance
\* when the ledger is empty.
C19_CashIsLastLoggedBalance ==
    NoExecution =>
        CashNow = (IF Len(tbl_trades) = 0 THEN starting_balance
                                          ELSE LastTrade.balance)

\* the sum of the signed quantities of the first n Trades that are of sym
RECURSIVE LedgerQuantity(_, _)
LedgerQuantity(sym, n) ==
    IF n = 0 THEN Zero
    ELSE IF tbl_trades[n].symbol = sym
        THEN RAdd(LedgerQuantity(sym, n - 1), tbl_trades[n].quantity)
        ELSE LedgerQuantity(sym, n - 1)

\* C20: when no execution of a trade is in progress, the holding of every
\* symbol (0 without a row) is the sum of the signed quantities of the
\* Trades of that symbol in the ledger.
C20_HoldingIsLedgerSum ==
    NoExecution =>
        \A sym \in Symbols :
            GetPortfolioQuantity(tbl_portfolio, sym)
                = LedgerQuantity(sym, Len(tbl_trades))
====
